---- MODULE Spec2Model ----
(***************************************************************************)
(* A model of parts of balsam:                                             *)
(*   - site/service/processing.py   (ProcessingService and its workers)    *)
(*   - _api/bases.py                (BatchJob.validate, Session leasing)   *)
(*   - platform/scheduler/lsf_sched.py (LSF output parsing)                *)
(* Each part has its own specification over the shared variable tuple:     *)
(*   Spec          the ProcessingService                                   *)
(*   SpecWorker    one worker of a started service, with every input       *)
(*   SpecStop      one worker of a service being terminated, scheduled     *)
(*   SpecLease     sessions acquiring jobs                                 *)
(*   SpecClock     parse_clock                                             *)
(*   SpecStatus    LsfScheduler._parse_status_output                       *)
(*   SpecStatusText  the same, on damaged and unexpected texts             *)
(*   SpecSubmit    LsfScheduler._parse_submit_output                       *)
(*   SpecBackfill  LsfScheduler._parse_backfill_output                     *)
(*   SpecValidate  BatchJobBase.validate                                   *)
(***************************************************************************)
EXTENDS Integers, Sequences, FiniteSets, TLC

VARIABLES
    \* ---- parse_clock ----
    clock_pc,       \* "input" | "done"
    t_str,          \* the argument: a string, as its sequence of characters
    clock_ret,      \* [exc, val]: the exception raised (None when it returns)
                    \* and the returned minutes
    \* ---- BatchJobBase.validate ----
    validate_pc,    \* "input" | "done"
    bj,             \* the BatchJob (self): its fields; partitions is the list
                    \* of the partitions' num_nodes (None is the empty list:
                    \* "if self.partitions" treats both alike)
    validate_exc,   \* the ValueError raised by validate, or None
    \* ---- LsfScheduler._parse_status_output ----
    status_pc,      \* "input" | "done"
    jobstat,        \* what the scheduler reports: [headers, jobs], jobs a
                    \* sequence of [sec, id] in section order; or, for the
                    \* texts of one section, [header, jobs, blank]
    status_ret,     \* [exc, val]: the exception raised (None when it returns)
                    \* and the returned status_dict
    \* ---- LsfScheduler._parse_submit_output ----
    submit_pc,      \* "input" | "done"
    submit_output,  \* the argument: a string, as its sequence of characters
    submit_ret,     \* [exc, val]: the exception raised (None when it returns)
                    \* and the returned scheduler id
    \* ---- LsfScheduler._parse_backfill_output ----
    backfill_pc,    \* "input" | "done"
    backfill_stdout, \* the argument: the sequence of its lines, each line
                    \* the sequence of its words
    backfill_ret,   \* [exc, val]: the exception raised (None when it returns)
                    \* and the returned windows, queue name -> list
    \* ---- sessions and job leases ----
    sessions,       \* the sessions table: id -> [row, heartbeat]; row is
                    \* "none" (not created yet), "active" or "deleted",
                    \* heartbeat is "fresh" or "expired" (older than the
                    \* reaper's timeout)
    jobs,           \* the jobs table: id -> [session_id, state, num_nodes];
                    \* session_id 0 is NULL
    held,           \* client side: session id -> ids of the jobs its
                    \* acquire_jobs calls returned, until the session is reaped
    last_acquire,   \* the last acquire_jobs call: [session, kwargs, jobs]
    last_tick,      \* the session whose tick() was the last call, 0 when the
                    \* last step was something else
    \* ---- ProcessingService ----
    num_workers,    \* the constructor's num_workers
    service,        \* the caller of start/terminate/join: [pc, _started, i,
                    \* start_calls]
    status_updater, \* BulkStatusUpdater: [state, queue, late, delivered];
                    \* queue is the sequence of the updates put, late tells
                    \* that one was put while the updater was not running,
                    \* delivered is what the transport has received
    job_source,     \* FixedDepthJobSource: [state, n]; n jobs handed out
    workers         \* worker -> [pc, sig, sig_job, job, exc, cwd, stdout,
                    \* stderr, old_cwd, old_stdout, old_stderr]

clock_vars == <<clock_pc, t_str, clock_ret>>
validate_vars == <<validate_pc, bj, validate_exc>>
status_vars == <<status_pc, jobstat, status_ret>>
lease_vars == <<sessions, jobs, held, last_acquire, last_tick>>
proc_vars == <<num_workers, service, status_updater, job_source, workers>>
sched_vars == <<submit_pc, submit_output, submit_ret, backfill_pc, backfill_stdout, backfill_ret>>

vars == <<clock_vars, validate_vars, status_vars, lease_vars, proc_vars, sched_vars>>

NULL == "None"

\* ---------------------------------------------------------------------------
\* Strings are sequences of one-character strings.
\* ---------------------------------------------------------------------------
Digits == {"0", "1", "2", "3", "4", "5", "6", "7", "8", "9"}

DigitVal(c) ==
    CASE c = "0" -> 0 [] c = "1" -> 1 [] c = "2" -> 2 [] c = "3" -> 3
      [] c = "4" -> 4 [] c = "5" -> 5 [] c = "6" -> 6 [] c = "7" -> 7
      [] c = "8" -> 8 [] c = "9" -> 9

\* str.split(sep) for a one-character separator: always at least one part.
RECURSIVE SplitFrom(_, _, _, _, _)
SplitFrom(s, sep, i, cur, acc) ==
    IF i > Len(s) THEN Append(acc, cur)
    ELSE IF s[i] = sep THEN SplitFrom(s, sep, i + 1, <<>>, Append(acc, cur))
    ELSE SplitFrom(s, sep, i + 1, Append(cur, s[i]), acc)

Split(s, sep) == SplitFrom(s, sep, 1, <<>>, <<>>)

\* int(text) for unsigned decimal text; the empty string and any non-digit
\* make int() raise ValueError.
IsInt(p) == Len(p) > 0 /\ \A i \in 1..Len(p) : p[i] \in Digits

RECURSIVE IntOf(_)
IntOf(p) ==
    IF Len(p) = 0 THEN 0
    ELSE 10 * IntOf(SubSeq(p, 1, Len(p) - 1)) + DigitVal(p[Len(p)])

\* round(S / 60) of Python 3 for an integer S >= 0: the quotient is rounded to
\* the nearest integer, and an exact half goes to the even neighbour.
round(S, d) ==
    LET q == S \div d
        r == S % d
    IN  IF 2 * r < d THEN q
        ELSE IF 2 * r > d THEN q + 1
        ELSE IF q % 2 = 0 THEN q ELSE q + 1

\* parse_clock(t_str): minutes of "D:H:M:S", "H:M:S" or "M:S".
parse_clock(s) ==
    LET parts == Split(s, ":")
        n == Len(parts)
        used == IF n \in {2, 3, 4} THEN parts ELSE <<>>
        D == IF n = 4 THEN IntOf(parts[1]) ELSE 0
        H == IF n = 4 THEN IntOf(parts[2]) ELSE IF n = 3 THEN IntOf(parts[1]) ELSE 0
        M == IF n \in {2, 3, 4} THEN IntOf(parts[n - 1]) ELSE 0
        S == IF n \in {2, 3, 4} THEN IntOf(parts[n]) ELSE 0
    IN  IF \E i \in 1..Len(used) : ~IsInt(used[i])
            THEN [exc |-> "ValueError", val |-> 0]
            ELSE [exc |-> NULL, val |-> D * 24 * 60 + H * 60 + M + round(S, 60)]

\* ---------------------------------------------------------------------------
\* SpecClock: parse_clock applied to bounded duration strings.
\* ---------------------------------------------------------------------------
MaxClockParts == 4

\* The seconds component and the components before it.
SecondsPart == {<<>>, <<"0", "0">>, <<"2", "9">>, <<"3", "0">>, <<"3", "1">>, <<"9", "0">>,
                <<"1", "5", "0">>}
LeadPart == {<<>>, <<"0", "0">>, <<"0", "1">>, <<"0", "2">>, <<"0", "3">>}

RECURSIVE Join(_, _)
Join(parts, sep) ==
    IF Len(parts) = 0 THEN <<>>
    ELSE IF Len(parts) = 1 THEN parts[1]
    ELSE parts[1] \o <<sep>> \o Join(Tail(parts), sep)

ClockInputs ==
    UNION {{Join(ps \o <<sec>>, ":") : ps \in [1..n -> LeadPart], sec \in SecondsPart} :
           n \in 0..(MaxClockParts - 1)}

ParseClock ==
    /\ clock_pc = "input"
    /\ clock_ret' = parse_clock(t_str)
    /\ clock_pc' = "done"
    /\ UNCHANGED <<t_str, validate_vars, status_vars, lease_vars, proc_vars, sched_vars>>

\* ---------------------------------------------------------------------------
\* BatchJobBase.validate
\* ---------------------------------------------------------------------------
MaxNodes == 3
MaxPartitions == 2

\* The site's settings the caller passes in.
allowed_queues ==
    [q \in {"debug", "default"} |->
        IF q = "debug" THEN [max_nodes |-> 1, max_walltime |-> 2]
                       ELSE [max_nodes |-> 2, max_walltime |-> 1]]
allowed_projects == {"datascience"}
optional_batch_job_params == {"singularity_prebuilt"}

RECURSIVE SumSeq(_)
SumSeq(s) == IF Len(s) = 0 THEN 0 ELSE Head(s) + SumSeq(Tail(s))

\* validate(self, ...): the ValueError raised (None when it returns) and the
\* fields of self afterwards.
validate_clamping(self) ==
    LET known == self.queue \in DOMAIN allowed_queues
        queue == allowed_queues[self.queue]
    IN  IF ~known THEN [exc |-> "Unknown queue", self |-> self]
        ELSE [exc |-> NULL,
              self |-> [self EXCEPT !.num_nodes =
                            IF @ > queue.max_nodes THEN queue.max_nodes ELSE @]]

validate(self) ==
    LET known == self.queue \in DOMAIN allowed_queues
        queue == allowed_queues[self.queue]
        extraneous == self.optional_params \ optional_batch_job_params
        exc ==
            IF ~known THEN "Unknown queue"
            ELSE IF self.num_nodes > queue.max_nodes THEN "exceeds queue max num_nodes"
            ELSE IF self.num_nodes < 1 THEN "self size must be at least 1 node"
            ELSE IF self.wall_time_min > queue.max_walltime
                THEN "exceeds queue max wall_time_min"
            ELSE IF self.project \notin allowed_projects THEN "Unknown project"
            ELSE IF /\ Len(self.partitions) > 0
                    /\ SumSeq(self.partitions) # self.num_nodes
                THEN "Sum of partition sizes must equal batchjob num_nodes"
            ELSE IF extraneous # {} THEN "Extraneous optional_params"
            ELSE NULL
    IN  [exc |-> exc, self |-> self]

PartitionLists ==
    UNION {[1..n -> 1..MaxNodes] : n \in 0..MaxPartitions}

BatchJobs ==
    [queue : {"debug", "default", "gpu"},
     project : {"datascience", "other"},
     num_nodes : 0..MaxNodes,
     wall_time_min : 0..MaxNodes,
     partitions : PartitionLists,
     optional_params : SUBSET {"singularity_prebuilt", "bogus"}]

Validate ==
    /\ validate_pc = "input"
    /\ LET r == validate(bj)
       IN  /\ bj' = r.self
           /\ validate_exc' = r.exc
    /\ validate_pc' = "done"
    /\ UNCHANGED <<clock_vars, status_vars, lease_vars, proc_vars, sched_vars>>

\* ---------------------------------------------------------------------------
\* LsfScheduler status parsing.  A text is its sequence of lines, a line the
\* sequence of its whitespace-separated words, and a column value (a "cell")
\* the sequence of the words that were joined by " " to make it.
\* ---------------------------------------------------------------------------
\* The characters of the words that occur in the texts.
NumberWords ==
    <<"0", "1", "2", "3", "4", "5", "6", "7", "8", "9", "10", "29", "30", "31", "59", "60">>
NumberChars ==
    <<<<"0">>, <<"1">>, <<"2">>, <<"3">>, <<"4">>, <<"5">>, <<"6">>, <<"7">>, <<"8">>, <<"9">>,
      <<"1", "0">>, <<"2", "9">>, <<"3", "0">>, <<"3", "1">>, <<"5", "9">>, <<"6", "0">>>>

Chars(w) ==
    CASE w = "1" -> <<"1">> [] w = "2" -> <<"2">> [] w = "3" -> <<"3">>
      [] w = "4" -> <<"4">> [] w = "5" -> <<"5">> [] w = "6" -> <<"6">>
      [] w = "-" -> <<"-">>
      [] w = "19:35" -> <<"1", "9", ":", "3", "5">>
      [] w = "20:00" -> <<"2", "0", ":", "0", "0">>
      [] w = "16:28:13" -> <<"1", "6", ":", "2", "8", ":", "1", "3">>
      [] \E n \in DOMAIN NumberWords : NumberWords[n] = w ->
            NumberChars[CHOOSE n \in DOMAIN NumberWords : NumberWords[n] = w]
      [] OTHER -> <<"x">>

RECURSIVE CellChars(_)
CellChars(cell) ==
    IF Len(cell) = 0 THEN <<>>
    ELSE IF Len(cell) = 1 THEN Chars(cell[1])
    ELSE Chars(cell[1]) \o <<" ">> \o CellChars(Tail(cell))

\* int(value)
int(cell) ==
    IF IsInt(CellChars(cell)) THEN [exc |-> NULL, val |-> IntOf(CellChars(cell))]
    ELSE [exc |-> "ValueError", val |-> 0]

\* parse_datetime(t_str): strptime with "%m/%d %H:%M:%S"
parse_datetime(cell) ==
    IF Len(cell) = 2 /\ cell[1] = "01/27" /\ cell[2] = "16:28:13"
    THEN [exc |-> NULL, val |-> cell]
    ELSE [exc |-> "ValueError", val |-> cell]

_job_states == [PEND |-> "queued", RUN |-> "running", BLOCKED |-> "failed"]

_job_state_map(scheduler_state) ==
    IF scheduler_state \in DOMAIN _job_states THEN _job_states[scheduler_state]
    ELSE "unknown"

_status_run_fields ==
    <<"scheduler_id", "username", "queue", "project", "num_nodes",
      "time_remaining_min", "start_time", "jobname">>

_status_pend_fields ==
    <<"scheduler_id", "username", "queue", "project", "num_nodes",
      "wall_time_min", "queue_time", "priority", "jobname">>

_status_block_fields ==
    <<"scheduler_id", "username", "queue", "project", "num_nodes",
      "wall_time_min", "message">>

\* _status_field_map(balsam_field) applied to a column value; a field without
\* a conversion ("priority", "message") sets nothing.
HasFieldMap(name) == name \notin {"priority", "message"}

_status_field_map(name, cell) ==
    CASE name = "scheduler_id" -> int(cell)
      [] name = "num_nodes" -> IF cell = <<"-">> THEN [exc |-> NULL, val |-> 0] ELSE int(cell)
      [] name \in {"wall_time_min", "time_remaining_min"} -> parse_clock(CellChars(cell))
      [] name \in {"start_time", "queue_time"} -> parse_datetime(cell)
      [] OTHER -> [exc |-> NULL, val |-> cell]

\* The fields of SchedulerJobStatus.
StatusKeys ==
    {"scheduler_id", "state", "queue", "project", "num_nodes", "wall_time_min",
     "time_remaining_min"}

\* The loop of _parse_job_status over zip(status_fields, fields), from column i.
RECURSIVE SetFields(_, _, _, _)
SetFields(status_fields, fields, i, status) ==
    IF i > Len(fields) THEN [exc |-> NULL, val |-> status]
    ELSE LET name == status_fields[i]
             r == _status_field_map(name, fields[i])
         IN  IF ~HasFieldMap(name) THEN SetFields(status_fields, fields, i + 1, status)
             ELSE IF r.exc # NULL THEN [exc |-> r.exc, val |-> status]
             ELSE IF name \in StatusKeys
                 THEN SetFields(status_fields, fields, i + 1, [status EXCEPT ![name] = r.val])
             ELSE SetFields(status_fields, fields, i + 1, status)

_parse_job_status(fields, status_fields, status) ==
    IF Len(fields) # Len(status_fields)
    THEN [exc |-> "ValueError: columns", val |-> status]
    ELSE SetFields(status_fields, fields, 1, status)

\* fields[a:b] of Python, a and b counted from 0, and " ".join of a slice.
SliceInclusive(fields, a, b) ==
    SubSeq(fields, a + 1, IF b + 1 < Len(fields) THEN b + 1 ELSE Len(fields))

Slice(fields, a, b) ==
    SubSeq(fields, a + 1, IF b < Len(fields) THEN b ELSE Len(fields))

RECURSIVE JoinCells(_)
JoinCells(cells) == IF Len(cells) = 0 THEN <<>> ELSE Head(cells) \o JoinCells(Tail(cells))

NewStatus(state) ==
    [scheduler_id |-> 0, state |-> state, queue |-> <<"batch">>, project |-> <<>>,
     num_nodes |-> 0, wall_time_min |-> 0, time_remaining_min |-> 0]

EmptyDict == [k \in {} |-> NewStatus(NULL)]

Contains(line, word) == \E i \in 1..Len(line) : line[i] = word

\* One iteration of the loop over job_lines: st is [state, run, pend, block,
\* status_dict, exc].
StatusLine(st, line) ==
    IF Len(line) > 0 /\ line[1] = "----" THEN
        IF Contains(line, "Running")
            THEN [st EXCEPT !.state = "running", !.run = TRUE, !.pend = FALSE, !.block = FALSE]
        ELSE IF Contains(line, "Eligible")
            THEN [st EXCEPT !.state = "queued", !.run = FALSE, !.pend = TRUE, !.block = FALSE]
        ELSE IF Contains(line, "Blocked")
            THEN [st EXCEPT !.state = "submit_failed", !.run = FALSE, !.pend = FALSE,
                            !.block = TRUE]
        ELSE [st EXCEPT !.exc = "NotImplementedError"]
    ELSE IF Len(line) > 0 /\ line[1] = "JobID" THEN st
    ELSE
        LET fields == [i \in 1..Len(line) |-> <<line[i]>>]
            rejoined == Slice(fields, 0, 6) \o <<JoinCells(Slice(fields, 6, 8))>>
                            \o Slice(fields, 8, Len(fields))
            blockjoined == Slice(fields, 0, 6) \o <<JoinCells(Slice(fields, 6, Len(fields)))>>
            job_stat ==
                IF st.run THEN
                    _parse_job_status(rejoined, _status_run_fields, NewStatus(st.state))
                ELSE IF st.pend THEN
                    _parse_job_status(rejoined, _status_pend_fields, NewStatus(st.state))
                ELSE
                    _parse_job_status(blockjoined, _status_block_fields, NewStatus(st.state))
        IN  IF ~(st.run \/ st.pend \/ st.block) THEN [st EXCEPT !.exc = "NotImplementedError"]
            ELSE IF job_stat.exc # NULL THEN [st EXCEPT !.exc = job_stat.exc]
            ELSE [st EXCEPT !.status_dict =
                    [k \in DOMAIN @ \cup {job_stat.val.scheduler_id} |->
                        IF k = job_stat.val.scheduler_id THEN job_stat.val ELSE @[k]]]

RECURSIVE StatusLoop(_, _, _)
StatusLoop(st, job_lines, i) ==
    IF i > Len(job_lines) \/ st.exc # NULL THEN st
    ELSE StatusLoop(StatusLine(st, job_lines[i]), job_lines, i + 1)

\* raw_output.strip().split("\n"): blank lines at either end are dropped, and
\* the split of an empty text is one empty line.
RECURSIVE StripLines(_)
StripLines(lines) ==
    IF Len(lines) = 0 THEN lines
    ELSE IF Head(lines) = <<>> THEN StripLines(Tail(lines))
    ELSE IF lines[Len(lines)] = <<>> THEN StripLines(SubSeq(lines, 1, Len(lines) - 1))
    ELSE lines

_parse_status_output(raw_output) ==
    LET stripped == StripLines(raw_output)
        job_lines == IF Len(stripped) = 0 THEN << <<>> >> ELSE stripped
        st == StatusLoop([state |-> NULL, run |-> FALSE, pend |-> FALSE, block |-> FALSE,
                          status_dict |-> EmptyDict, exc |-> NULL], job_lines, 1)
    IN  [exc |-> st.exc, val |-> st.status_dict]

\* The text jobstat prints for the jobs of each section (the example output of
\* _parse_status_output); a section without jobs is its header line alone.
MaxJobLines == 3
MaxSchedulerId == 3

IdWord(id) == <<"1", "2", "3", "4", "5", "6">>[id]

JobLine(j) ==
    CASE j.sec = "run" ->
            <<IdWord(j.id), "parton", "batch", "CSC388", "1", "19:35", "01/27", "16:28:13",
              "Not_Specified">>
      [] j.sec = "pend" ->
            <<IdWord(j.id), "parton", "batch", "CSC388", "-", "20:00", "01/27", "16:28:13",
              "504.00", "Not_Specified">>
      [] j.sec = "block" ->
            <<IdWord(j.id), "parton", "batch", "CSC388", "2", "20:00">>
                \o SubSeq(<<"Job", "dependency">>, 1, j.id % 3)

SectionHeader(sec) ==
    CASE sec = "run" -> <<"----", "Running", "Jobs:", "----">>
      [] sec = "pend" -> <<"----", "Eligible", "Jobs:", "----">>
      [] sec = "block" -> <<"----", "Blocked", "Jobs:", "----">>

ColumnNames == <<"JobID", "User", "Queue", "Project", "Nodes">>

RECURSIVE SelectSec(_, _)
SelectSec(js, sec) ==
    IF Len(js) = 0 THEN <<>>
    ELSE IF Head(js).sec = sec THEN <<Head(js)>> \o SelectSec(Tail(js), sec)
    ELSE SelectSec(Tail(js), sec)

SectionText(js, sec) ==
    LET mine == SelectSec(js.jobs, sec)
    IN  (IF js.headers THEN <<SectionHeader(sec)>> ELSE <<>>)
        \o (IF js.headers /\ Len(mine) > 0 THEN <<ColumnNames>> ELSE <<>>)
        \o [i \in 1..Len(mine) |-> JobLine(mine[i])]

JobstatOutput(js) ==
    SectionText(js, "run") \o SectionText(js, "pend") \o SectionText(js, "block")

SecRank(sec) == CASE sec = "run" -> 1 [] sec = "pend" -> 2 [] sec = "block" -> 3

JobstatInputs ==
    [headers : BOOLEAN,
     jobs : UNION {{js \in [1..n -> [sec : {"run", "pend", "block"}, id : 1..MaxSchedulerId]] :
                        \A i \in 1..(n - 1) : SecRank(js[i].sec) <= SecRank(js[i + 1].sec)} :
                   n \in 0..MaxJobLines}]

ParseStatusOutput ==
    /\ status_pc = "input"
    /\ status_ret' = _parse_status_output(JobstatOutput(jobstat))
    /\ status_pc' = "done"
    /\ UNCHANGED <<jobstat, clock_vars, validate_vars, lease_vars, proc_vars, sched_vars>>

\* The texts of one section: the header of a section jobstat prints, a header
\* _parse_status_output does not know ("other"), or no header at all
\* ("none"); then job lines printed with the columns of that section (those
\* of running jobs where the section is not a known one), each complete or
\* with its drop-th word missing, and with or without one more word at its
\* end; blank lines around the text if blank is set.
MaxTextLines == 1

TextHeaders == {"run", "pend", "block", "other", "none"}
DropWords == {0, 4, 6, 9}

PrintedSec(header) == IF header \in {"run", "pend", "block"} THEN header ELSE "run"

TextHeader(header) ==
    CASE header = "other" -> <<<<"----", "Suspended", "Jobs:", "----">>>>
      [] header = "none" -> <<>>
      [] OTHER -> <<SectionHeader(header)>>

TextJobLine(header, j) ==
    LET whole == JobLine([sec |-> PrintedSec(header), id |-> j.id])
        kept == IF j.drop \in 1..Len(whole)
                THEN SubSeq(whole, 1, j.drop - 1) \o SubSeq(whole, j.drop + 1, Len(whole))
                ELSE whole
    IN  IF j.extra THEN kept \o <<"more">> ELSE kept

JobstatText(js) ==
    (IF js.blank THEN << <<>> >> ELSE <<>>)
    \o TextHeader(js.header)
    \o [i \in 1..Len(js.jobs) |-> TextJobLine(js.header, js.jobs[i])]
    \o (IF js.blank THEN << <<>> >> ELSE <<>>)

ParseStatusText ==
    /\ status_pc = "text"
    /\ status_ret' = _parse_status_output(JobstatText(jobstat))
    /\ status_pc' = "done"
    /\ UNCHANGED <<jobstat, clock_vars, validate_vars, lease_vars, proc_vars, sched_vars>>

\* str.find(ch, start), counted from 0: -1 when ch does not occur from start on.
find(s, ch, start) ==
    IF \E i \in (start + 1)..Len(s) : s[i] = ch
    THEN (CHOOSE i \in (start + 1)..Len(s) :
                s[i] = ch /\ \A k \in (start + 1)..(i - 1) : s[k] # ch) - 1
    ELSE -1

\* s[a:b] of Python for a >= 0: a negative b counts from the end.
PySlice(s, a, b) ==
    LET hi == IF b < 0 THEN (IF b + Len(s) < 0 THEN 0 ELSE b + Len(s))
              ELSE IF b > Len(s) THEN Len(s) ELSE b
    IN  IF a >= hi THEN <<>> ELSE SubSeq(s, a + 1, hi)

\* str.strip() and str.split() for the space character.
RECURSIVE strip(_)
strip(s) ==
    IF Len(s) = 0 THEN s
    ELSE IF Head(s) = " " THEN strip(Tail(s))
    ELSE IF s[Len(s)] = " " THEN strip(SubSeq(s, 1, Len(s) - 1))
    ELSE s

split(s) == SelectSeq(Split(s, " "), LAMBDA part : Len(part) > 0)

\* int(text) of a str: blanks around the digits are allowed.
int_str(s) ==
    IF IsInt(strip(s)) THEN [exc |-> NULL, val |-> IntOf(strip(s))]
    ELSE [exc |-> "ValueError", val |-> 0]

\* LsfScheduler._parse_submit_output(submit_output): [exc, val].
_parse_submit_output(so) ==
    LET start == 5
        end == find(so, ">", start)
        first == int_str(PySlice(so, start, end))
        tokens == split(so)
    IN  IF first.exc = NULL THEN first
        ELSE IF Len(tokens) = 0 THEN [exc |-> "IndexError", val |-> 0]
        ELSE int_str(tokens[Len(tokens)])

\* What bsub may print: up to MaxSubmitParts pieces, one after the other.
MaxSubmitParts == 3

SubmitPieces ==
    {<<"J", "o", "b", " ", "<", "1", "2", ">">>, <<"J", "o", "b", " ", "<">>, <<"1", "2">>,
     <<">">>, <<" ">>, <<"x">>, <<"7">>}

SubmitOutputs ==
    {JoinCells(pieces) : pieces \in UNION {[1..n -> SubmitPieces] : n \in 0..MaxSubmitParts}}

ParseSubmitOutput ==
    /\ submit_pc = "input"
    /\ submit_ret' = _parse_submit_output(submit_output)
    /\ submit_pc' = "done"
    /\ UNCHANGED <<submit_output, backfill_pc, backfill_stdout, backfill_ret, clock_vars,
                   validate_vars, status_vars, lease_vars, proc_vars>>

\* LsfScheduler._parse_bslots_line(line): [exc, val], val the window
\* [num_nodes, wall_time_min].  re.findall("a.*b", line) finds something when
\* the words occur in that order.
InOrder(line, words) ==
    \E place \in [1..Len(words) -> 1..Len(line)] :
        /\ \A i \in 1..Len(words) : line[place[i]] = words[i]
        /\ \A i \in 1..(Len(words) - 1) : place[i] < place[i + 1]

IntPart(parts, i) ==
    IF i > Len(parts) THEN [exc |-> "IndexError", val |-> 0] ELSE int(<<parts[i]>>)

_parse_bslots_line_rounding(line) ==
    LET nodes == IntPart(line, 1)
        hours == IntPart(line, 2)
        minutes == IntPart(line, 4)
        up(i) == IF IntPart(line, i).val >= 30 THEN 1 ELSE 0
        window(t) == [exc |-> NULL, val |-> [num_nodes |-> nodes.val, wall_time_min |-> t]]
    IN  IF InOrder(line, <<"hours", "minutes", "seconds">>)
            THEN window(hours.val * 60 + minutes.val + up(6))
        ELSE IF InOrder(line, <<"minutes", "seconds">>) THEN window(hours.val + up(4))
        ELSE window(0)

_parse_bslots_line(line) ==
    LET nodes == IntPart(line, 1)
        hours == IntPart(line, 2)
        minutes == IntPart(line, 4)
        window(t) == [exc |-> NULL, val |-> [num_nodes |-> nodes.val, wall_time_min |-> t]]
    IN  IF nodes.exc # NULL THEN [exc |-> nodes.exc, val |-> <<>>]
        ELSE IF InOrder(line, <<"hours", "minutes", "seconds">>) THEN
            IF hours.exc # NULL THEN [exc |-> hours.exc, val |-> <<>>]
            ELSE IF minutes.exc # NULL THEN [exc |-> minutes.exc, val |-> <<>>]
            ELSE window(hours.val * 60 + minutes.val)
        ELSE IF InOrder(line, <<"minutes", "seconds">>) THEN
            IF hours.exc # NULL THEN [exc |-> hours.exc, val |-> <<>>]
            ELSE window(hours.val)
        ELSE window(0)

\* LsfScheduler._parse_backfill_output(stdout): [exc, val], val the list
\* windows["batch"].  stdout.split("\n") of an empty text is one empty line;
\* the first line is the header.
RECURSIVE BackfillLoop(_, _, _)
BackfillLoop(node_lines, i, windows) ==
    IF i > Len(node_lines) THEN [exc |-> NULL, val |-> windows]
    ELSE IF Len(node_lines[i]) = 0 THEN BackfillLoop(node_lines, i + 1, windows)
    ELSE LET w == _parse_bslots_line(node_lines[i])
         IN  IF w.exc # NULL THEN [exc |-> w.exc, val |-> windows]
             ELSE BackfillLoop(node_lines, i + 1, Append(windows, w.val))

_queue_name == "batch"

_parse_backfill_output(stdout) ==
    LET raw_lines == IF Len(stdout) = 0 THEN << <<>> >> ELSE stdout
        looped == BackfillLoop(Tail(raw_lines), 1, <<>>)
    IN  [exc |-> looped.exc, val |-> (_queue_name :> looped.val)]

\* ---------------------------------------------------------------------------
\* SpecBackfill: _parse_backfill_output applied to bounded bslots texts, a
\* header line followed by up to MaxBackfillLines lines, each blank or
\* "<slots> N hours M minutes S seconds" or "<slots> M minutes S seconds".
\* ---------------------------------------------------------------------------
MaxBackfillLines == 2

BackfillSlots == {"1", "2"}
BackfillHours == {"1", "2"}
BackfillMinutes == {"0", "59"}
BackfillSeconds == {"0", "29", "30", "59"}

HoursLines ==
    {<<n, h, "hours", m, "minutes", sec, "seconds">> :
        n \in BackfillSlots, h \in BackfillHours, m \in BackfillMinutes,
        sec \in BackfillSeconds}
MinutesLines ==
    {<<n, m, "minutes", sec, "seconds">> :
        n \in BackfillSlots, m \in BackfillMinutes, sec \in BackfillSeconds}
BackfillLines == {<<>>} \cup HoursLines \cup MinutesLines

\* The text of a header line and the lines ls.
BackfillText(ls) == <<<<"SLOTS", "RUNTIME">>>> \o ls

ParseBackfillOutput ==
    /\ backfill_pc = "input"
    /\ backfill_ret' = _parse_backfill_output(backfill_stdout)
    /\ backfill_pc' = "done"
    /\ UNCHANGED <<backfill_stdout, submit_pc, submit_output, submit_ret, clock_vars,
                   validate_vars, status_vars, lease_vars, proc_vars>>

\* ---------------------------------------------------------------------------
\* Sessions and job leases: SessionBase / SessionManagerBase on the client, the
\* sessions and jobs tables on the server.
\* ---------------------------------------------------------------------------
MaxSessions == 2
MaxLeaseJobs == 2

SessionIds == 1..MaxSessions
LeaseJobIds == 1..MaxLeaseJobs

RUNNABLE_STATES == {"PREPROCESSED", "RESTART_READY"}

\* An Optional[...] argument is <<>> for None and <<v>> for the value v.
None == <<>>
Some(v) == <<v>>

NoAcquire ==
    [session |-> 0,
     kwargs |-> [max_num_jobs |-> 0, max_wall_time_min |-> None, max_nodes_per_job |-> None,
                 max_aggregate_nodes |-> None, serial_only |-> FALSE, filter_tags |-> {},
                 states |-> {}, app_ids |-> {}],
     jobs |-> <<>>]

\* The server's handler of POST sessions/{id}: the select-and-claim of spec
\* section 4.3, one transaction.  Candidates are the unleased jobs in one of
\* the wanted states that fit max_nodes_per_job, in ascending id order; they
\* are claimed greedily while the count and the node budget allow.
RECURSIVE Claim(_, _, _, _, _)
Claim(table, kwargs, id, count, nodes) ==
    IF id > MaxLeaseJobs \/ count >= kwargs.max_num_jobs THEN <<>>
    ELSE LET job == table[id]
             fits ==
                /\ job.session_id = 0
                /\ job.state \in kwargs.states
                /\ kwargs.max_nodes_per_job # None
                        => job.num_nodes <= kwargs.max_nodes_per_job[1]
                /\ kwargs.max_aggregate_nodes # None
                        => nodes + job.num_nodes <= kwargs.max_aggregate_nodes[1]
         IN  IF fits
             THEN <<id>> \o Claim(table, kwargs, id + 1, count + 1, nodes + job.num_nodes)
             ELSE Claim(table, kwargs, id + 1, count, nodes)

SeqRange(q) == {q[i] : i \in 1..Len(q)}

\* [jobs, acquired_raw]: the jobs table after the claim and the response.
ServerAcquire(table, session_id, kwargs) ==
    LET claimed == Claim(table, kwargs, 1, 0, 0)
    IN  [jobs |-> [id \in LeaseJobIds |->
                    IF id \in SeqRange(claimed)
                    THEN [table[id] EXCEPT !.session_id = session_id]
                    ELSE table[id]],
         acquired_raw |-> claimed]

\* SessionManagerBase._do_acquire(instance, **kwargs): post to
\* sessions/{instance.id} and return the jobs of the response.
_do_acquire_first_session(table, instance, kwargs) ==
    ServerAcquire(table, 1, kwargs)

_do_acquire(table, instance, kwargs) ==
    ServerAcquire(table, instance, kwargs)

\* SessionBase.acquire_jobs(self, max_num_jobs, ...): filter_tags and app_ids
\* default to empty, everything is passed on.
acquire_jobs_unbudgeted(table, self, kwargs) ==
    _do_acquire(table, self, [kwargs EXCEPT !.max_aggregate_nodes = None])

acquire_jobs(table, self, kwargs) ==
    _do_acquire(table, self, kwargs)

AcquireKwargs ==
    [max_num_jobs : {1, MaxLeaseJobs},
     max_wall_time_min : {None},
     max_nodes_per_job : {None},
     max_aggregate_nodes : {None, Some(2)},
     serial_only : {FALSE},
     filter_tags : {{}},
     states : {RUNNABLE_STATES},
     app_ids : {{}}]

\* Session.objects.create(): a new row with a fresh heartbeat.
CreateSession(s) ==
    /\ sessions[s].row = "none"
    /\ \A t \in SessionIds : t < s => sessions[t].row # "none"
    /\ sessions' = [sessions EXCEPT ![s] = [row |-> "active", heartbeat |-> "fresh"]]
    /\ last_tick' = 0
    /\ UNCHANGED <<jobs, held, last_acquire>>
    /\ UNCHANGED <<clock_vars, validate_vars, status_vars, proc_vars, sched_vars>>

AcquireJobs(s, kwargs) ==
    /\ sessions[s].row = "active"
    /\ LET r == acquire_jobs(jobs, s, kwargs)
       IN  /\ jobs' = r.jobs
           /\ held' = [held EXCEPT ![s] = @ \cup SeqRange(r.acquired_raw)]
           /\ last_acquire' = [session |-> s, kwargs |-> kwargs, jobs |-> r.acquired_raw]
    /\ last_tick' = 0
    /\ UNCHANGED sessions
    /\ UNCHANGED <<clock_vars, validate_vars, status_vars, proc_vars, sched_vars>>

\* The server's handler of PUT sessions/{id}: the heartbeat of that session
\* is refreshed; nothing happens for an id that has no row.
ServerTick(table, session_id) ==
    IF table[session_id].row = "active"
    THEN [table EXCEPT ![session_id].heartbeat = "fresh"]
    ELSE table

\* SessionManagerBase._do_tick(instance): the one request it sends.
_do_tick_first_session(instance) == [method |-> "PUT", session_id |-> 1]

_do_tick(instance) == [method |-> "PUT", session_id |-> instance]

\* SessionBase.tick(self)
tick(self) == _do_tick(self)

Tick(s) ==
    /\ sessions[s].row = "active"
    /\ sessions' = ServerTick(sessions, tick(s).session_id)
    /\ last_tick' = s
    /\ UNCHANGED <<jobs, held, last_acquire>>
    /\ UNCHANGED <<clock_vars, validate_vars, status_vars, proc_vars, sched_vars>>

\* Time passes: the heartbeat of a session grows older than the timeout.
Age(s) ==
    /\ sessions[s].row = "active"
    /\ sessions[s].heartbeat = "fresh"
    /\ sessions' = [sessions EXCEPT ![s].heartbeat = "expired"]
    /\ last_tick' = 0
    /\ UNCHANGED <<jobs, held, last_acquire>>
    /\ UNCHANGED <<clock_vars, validate_vars, status_vars, proc_vars, sched_vars>>

\* The foreign key jobs.session_id -> sessions.id is ON DELETE SET NULL: what
\* deleting the row of session s does to the jobs table.
session_id_ondelete_keep(table, s) == table

session_id_ondelete(table, s) ==
    [id \in LeaseJobIds |->
        IF table[id].session_id = s THEN [table[id] EXCEPT !.session_id = 0]
        ELSE table[id]]

\* The reaper deletes a session whose heartbeat has expired.
Reap(s) ==
    /\ sessions[s].row = "active"
    /\ sessions[s].heartbeat = "expired"
    /\ sessions' = [sessions EXCEPT ![s].row = "deleted"]
    /\ jobs' = session_id_ondelete(jobs, s)
    /\ held' = [held EXCEPT ![s] = {}]
    /\ last_tick' = 0
    /\ UNCHANGED last_acquire
    /\ UNCHANGED <<clock_vars, validate_vars, status_vars, proc_vars, sched_vars>>

\* ---------------------------------------------------------------------------
\* site/service/processing.py: the ProcessingService, its workers, and what a
\* worker does with one job.
\* ---------------------------------------------------------------------------
NumWorkers == 2
MaxJobs == 2
MaxStartCalls == 2
MaxLogLines == 2

\* The dispatch table of transition: state -> the name of the app's handler.
transition_func ==
    [STAGED_IN |-> "preprocess", RUN_DONE |-> "postprocess",
     RUN_ERROR |-> "handle_error", RUN_TIMEOUT |-> "handle_timeout"]

\* The states the job source is asked for, and the app cache: app id -> the
\* app's _app_type.
SourceStates_with_preprocessed ==
    {"PREPROCESSED", "STAGED_IN", "RUN_DONE", "RUN_ERROR", "RUN_TIMEOUT"}

SourceStates == {"STAGED_IN", "RUN_DONE", "RUN_ERROR", "RUN_TIMEOUT"}
AppTypes == <<"PY_FUNC", "SHELL_CMD">>
app_cache == [id \in 1..Len(AppTypes) |-> AppTypes[id]]
\* The app ids the job source is asked for; id 0 stands for None.
app_ids == {app_id \in DOMAIN app_cache : app_id # 0}

ret_marker == "BALSAM-RETURN-VALUE"
exc_marker == "BALSAM-EXCEPTION"

NoStateData == [message |-> NULL, exception |-> NULL]
NoFile == [is_file |-> FALSE, lines |-> <<>>]

\* A job as a worker holds it.  serialized_return_value and
\* serialized_exception are the fields of job._update_model (None: unset).
\* entry, calls, raised, job_out and scanned record what happened to the job:
\* its state when dequeued, the handlers called, the exception the handler
\* raised, the job.out file in its workdir, and whether that file was opened.
NoJob ==
    [id |-> 0, app_id |-> 0, state |-> NULL, state_data |-> NoStateData,
     serialized_return_value |-> None, serialized_exception |-> None,
     entry |-> NULL, calls |-> <<>>, raised |-> NULL, job_out |-> NoFile,
     scanned |-> FALSE]

NewJob(id, app_id, state) ==
    [NoJob EXCEPT !.id = id, !.app_id = app_id, !.state = state, !.entry = state]

\* What a handler does: it may set job.state (and state_data), and it may
\* raise afterwards.
HandlerRuns == [state : {NULL, "RUN_DONE", "POSTPROCESSED"}, raises : {NULL, "boom"}]

RunHandler(job, name, h) ==
    LET called == [job EXCEPT !.calls = Append(@, name), !.raised = h.raises]
    IN  IF h.state = NULL THEN called
        ELSE [called EXCEPT !.state = h.state,
                            !.state_data = [message |-> "set by handler", exception |-> NULL]]

\* transition(app): [job, exc], exc the exception that leaves transition.
transition_reraising(job, h) ==
    IF job.state \notin DOMAIN transition_func THEN [job |-> job, exc |-> "KeyError"]
    ELSE [job |-> RunHandler(job, transition_func[job.state], h), exc |-> h.raises]

transition_until_settled(job, h) ==
    IF job.state \notin DOMAIN transition_func THEN [job |-> job, exc |-> "KeyError"]
    ELSE LET name == transition_func[job.state]
             ran == RunHandler(job, name, h)
         IN  IF h.raises # NULL
             THEN [job |-> [ran EXCEPT !.state = "FAILED",
                                       !.state_data = [message |-> name,
                                                       exception |-> h.raises]],
                   exc |-> NULL]
             ELSE IF ran.state \in DOMAIN transition_func /\ ran.state # job.state
             THEN [job |-> RunHandler(ran, transition_func[ran.state], h), exc |-> NULL]
             ELSE [job |-> ran, exc |-> NULL]

transition(job, h) ==
    IF job.state \notin DOMAIN transition_func THEN [job |-> job, exc |-> "KeyError"]
    ELSE LET name == transition_func[job.state]
             ran == RunHandler(job, name, h)
         IN  IF h.raises # NULL
             THEN [job |-> [ran EXCEPT !.state = "FAILED",
                                       !.state_data = [message |-> name,
                                                       exception |-> h.raises]],
                   exc |-> NULL]
             ELSE [job |-> ran, exc |-> NULL]

\* The loop of read_pyapp_result over the lines of job.out: the index of the
\* first line with one of the markers, 0 if there is none.
RECURSIVE FirstMarked(_, _)
FirstMarked(lines, i) ==
    IF i > Len(lines) THEN 0
    ELSE IF Contains(lines[i], ret_marker) \/ Contains(lines[i], exc_marker) THEN i
    ELSE FirstMarked(lines, i + 1)

\* line[line.find(marker):].split(None, 1)[1:]: the words after the marker,
\* <<>> when nothing follows it.
AfterMarker(line, marker) ==
    LET at == CHOOSE i \in 1..Len(line) :
                    line[i] = marker /\ \A k \in 1..(i - 1) : line[k] # marker
    IN  SubSeq(line, at + 1, Len(line))

\* read_pyapp_result(app): [job, exc].
read_pyapp_result_return_only(job, app_type, file) ==
    LET seen == [job EXCEPT !.job_out = file, !.scanned = file.is_file]
    IN  [job |-> IF FirstMarked(file.lines, 1) = 0 THEN seen
                 ELSE [seen EXCEPT !.serialized_return_value = Some(<<"x">>),
                                   !.serialized_exception = Some(<<>>)],
         exc |-> NULL]

read_pyapp_result(job, app_type, file) ==
    LET seen == [job EXCEPT !.job_out = file]
        k == FirstMarked(file.lines, 1)
        line == file.lines[k]
        is_return == Contains(line, ret_marker)
        payload == AfterMarker(line, IF is_return THEN ret_marker ELSE exc_marker)
    IN  IF app_type # "PY_FUNC" THEN [job |-> seen, exc |-> NULL]
        ELSE IF job.state \notin {"RUN_DONE", "RUN_ERROR"} THEN [job |-> seen, exc |-> NULL]
        ELSE IF ~file.is_file THEN [job |-> seen, exc |-> NULL]
        ELSE IF k = 0 THEN [job |-> [seen EXCEPT !.scanned = TRUE], exc |-> NULL]
        ELSE IF payload = <<>>
            THEN [job |-> [seen EXCEPT !.scanned = TRUE], exc |-> "IndexError"]
        ELSE IF is_return
            THEN [job |-> [seen EXCEPT !.scanned = TRUE,
                                       !.serialized_return_value = Some(payload),
                                       !.serialized_exception = Some(<<>>)],
                  exc |-> NULL]
        ELSE [job |-> [seen EXCEPT !.scanned = TRUE,
                                   !.serialized_exception = Some(payload),
                                   !.serialized_return_value = Some(<<>>)],
              exc |-> NULL]

\* job_context: entering saves the streams and the directory, changes into
\* the workdir (made if missing) and opens balsam.log; fs tells how the file
\* system answers.  A failed chdir or mkdir leaves before the try block.
FsOutcomes == {"ok", "mkdir", "chdir_error", "open_error"}

job_context_exit_keeps_stderr(wk) ==
    [wk EXCEPT !.cwd = wk.old_cwd, !.stdout = wk.old_stdout]

job_context_exit(wk) ==
    [wk EXCEPT !.cwd = wk.old_cwd, !.stdout = wk.old_stdout, !.stderr = wk.old_stderr]

job_context_enter(wk, fs) ==
    LET saved == [wk EXCEPT !.old_cwd = wk.cwd, !.old_stdout = wk.stdout,
                            !.old_stderr = wk.stderr]
        inside == [saved EXCEPT !.cwd = "workdir"]
    IN  IF fs = "chdir_error" THEN [saved EXCEPT !.exc = "OSError", !.pc = "died"]
        ELSE IF fs = "open_error"
            THEN [job_context_exit(inside) EXCEPT !.exc = "OSError", !.pc = "died"]
        ELSE [inside EXCEPT !.stdout = "balsam.log", !.stderr = "balsam.log",
                            !.pc = "transition"]

\* The update_data of run_worker.
UpdateData(job) ==
    [id |-> job.id, state |-> job.state, state_timestamp |-> "utcnow",
     state_data |-> job.state_data,
     serialized_return_value |-> job.serialized_return_value,
     serialized_exception |-> job.serialized_exception]

NewWorker ==
    [pc |-> "new", sig |-> FALSE, sig_job |-> 0, job |-> NoJob, exc |-> NULL,
     cwd |-> "site", stdout |-> "stdout", stderr |-> "stderr",
     old_cwd |-> NULL, old_stdout |-> NULL, old_stderr |-> NULL]

\* SigHandler: the signal sets the worker's flag and does nothing else.
\* sig_job records the job in flight when the flag was set.
SigHandler_set(wk, in_flight) ==
    IF wk.sig THEN wk
    ELSE [wk EXCEPT !.sig = TRUE, !.sig_job = IF in_flight THEN wk.job.id ELSE 0]

\* BulkStatusUpdater.put: the record joins the updater's queue; late records
\* a put that arrives when the updater is not running to drain it.
put(su, update_data) ==
    [su EXCEPT !.queue = Append(@, update_data), !.late = @ \/ su.state # "running"]

\* BulkStatusUpdater's background loop: it sends the records queued since
\* the last send, up to the k-th, as one bulk request.
flush(su, k) ==
    [su EXCEPT !.delivered = @ \o SubSeq(su.queue, Len(@) + 1, k)]

\* BulkStatusUpdater.terminate: it drains and sends what is queued before it
\* returns; a stopped updater sends nothing more.
updater_terminate(su) ==
    [flush(su, Len(su.queue)) EXCEPT !.state = "terminated"]

InFlight(wk) == wk.pc \in {"enter", "transition", "read", "update"}
Ended(wk) == wk.pc \in {"exited", "died"}

Others == <<clock_vars, validate_vars, status_vars, lease_vars, sched_vars>>

\* ---- run_worker ----
\* while not sig_handler.is_set()
W_Loop_ignoring_signal(w) ==
    /\ workers[w].pc = "loop"
    /\ workers' = [workers EXCEPT ![w].pc = "get"]
    /\ UNCHANGED <<num_workers, service, status_updater, job_source, Others>>

W_Loop(w) ==
    /\ workers[w].pc = "loop"
    /\ workers' = [workers EXCEPT ![w].pc = IF workers[w].sig THEN "exited" ELSE "get"]
    /\ UNCHANGED <<num_workers, service, status_updater, job_source, Others>>

\* job_source.get(timeout=1) raises queue.Empty
W_Empty(w) ==
    /\ workers[w].pc = "get"
    /\ workers' = [workers EXCEPT ![w].pc = "loop"]
    /\ UNCHANGED <<num_workers, service, status_updater, job_source, Others>>

\* job_source.get(timeout=1) returns a job
W_Get(w, app_id, state) ==
    /\ workers[w].pc = "get"
    /\ job_source.state \in {"running", "terminated"}
    /\ job_source.n < MaxJobs
    /\ job_source' = [job_source EXCEPT !.n = @ + 1]
    /\ workers' = [workers EXCEPT ![w].pc = "enter",
                                  ![w].job = NewJob(job_source.n + 1, app_id, state)]
    /\ UNCHANGED <<num_workers, service, status_updater, Others>>

\* app_cache[job.app_id], app_cls(job), with job_context(...)
W_Enter(w, fs) ==
    /\ workers[w].pc = "enter"
    /\ workers' = [workers EXCEPT ![w] =
            IF workers[w].job.app_id \notin DOMAIN app_cache
            THEN [@ EXCEPT !.exc = "KeyError", !.pc = "died"]
            ELSE job_context_enter(@, fs)]
    /\ UNCHANGED <<num_workers, service, status_updater, job_source, Others>>

\* transition(app); an exception that leaves it leaves the with block too
W_Transition(w, h) ==
    /\ workers[w].pc = "transition"
    /\ LET r == transition(workers[w].job, h)
       IN  workers' = [workers EXCEPT ![w] =
                IF r.exc # NULL
                THEN [job_context_exit([@ EXCEPT !.job = r.job])
                        EXCEPT !.exc = r.exc, !.pc = "died"]
                ELSE [@ EXCEPT !.job = r.job, !.pc = "read"]]
    /\ UNCHANGED <<num_workers, service, status_updater, job_source, Others>>

\* read_pyapp_result(app) and the end of the with block
W_Read_rechecking(w, file) ==
    /\ workers[w].pc = "read"
    /\ LET r == read_pyapp_result(workers[w].job, app_cache[workers[w].job.app_id], file)
       IN  workers' = [workers EXCEPT ![w] =
                [job_context_exit([@ EXCEPT !.job = r.job])
                    EXCEPT !.exc = r.exc,
                           !.pc = IF r.exc # NULL THEN "died"
                                  ELSE IF workers[w].sig THEN "loop" ELSE "update"]]
    /\ UNCHANGED <<num_workers, service, status_updater, job_source, Others>>

W_Read(w, file) ==
    /\ workers[w].pc = "read"
    /\ LET r == read_pyapp_result(workers[w].job, app_cache[workers[w].job.app_id], file)
       IN  workers' = [workers EXCEPT ![w] =
                [job_context_exit([@ EXCEPT !.job = r.job])
                    EXCEPT !.exc = r.exc, !.pc = IF r.exc # NULL THEN "died" ELSE "update"]]
    /\ UNCHANGED <<num_workers, service, status_updater, job_source, Others>>

\* status_updater.put(**update_data)
W_Put(w) ==
    /\ workers[w].pc = "update"
    /\ status_updater' = put(status_updater, UpdateData(workers[w].job))
    /\ workers' = [workers EXCEPT ![w].pc = "loop", ![w].job = NoJob]
    /\ UNCHANGED <<num_workers, service, job_source, Others>>

\* ---- ProcessingService ----
\* start(): nothing happens when _started is set
Start_without_flag ==
    /\ service.pc = "idle"
    /\ service.start_calls < MaxStartCalls
    /\ service' = [service EXCEPT !.start_calls = @ + 1, !.pc = "start_updater"]
    /\ UNCHANGED <<num_workers, status_updater, job_source, workers, Others>>

Start ==
    /\ service.pc = "idle"
    /\ service.start_calls < MaxStartCalls
    /\ service' = [service EXCEPT !.start_calls = @ + 1,
                                  !.pc = IF service._started THEN "idle" ELSE "start_updater"]
    /\ UNCHANGED <<num_workers, status_updater, job_source, workers, Others>>

\* self.status_updater.start()
StartUpdater ==
    /\ service.pc = "start_updater"
    /\ status_updater' = [status_updater EXCEPT !.state = "running"]
    /\ service' = [service EXCEPT !.pc = "start_source"]
    /\ UNCHANGED <<num_workers, job_source, workers, Others>>

\* self.job_source.start()
StartSource ==
    /\ service.pc = "start_source"
    /\ job_source' = [job_source EXCEPT !.state = "running"]
    /\ service' = [service EXCEPT !.pc = "start_workers", !.i = 1]
    /\ UNCHANGED <<num_workers, status_updater, workers, Others>>

\* for worker in self.workers: worker.start()
StartWorker ==
    /\ service.pc = "start_workers"
    /\ service.i <= num_workers
    /\ workers' = [workers EXCEPT ![service.i].pc = "loop"]
    /\ service' = [service EXCEPT !.i = @ + 1]
    /\ UNCHANGED <<num_workers, status_updater, job_source, Others>>

\* self._started = True
StartDone ==
    /\ service.pc = "start_workers"
    /\ service.i > num_workers
    /\ service' = [service EXCEPT !._started = TRUE, !.pc = "idle"]
    /\ UNCHANGED <<num_workers, status_updater, job_source, workers, Others>>

\* terminate(): self.job_source.terminate()
Terminate ==
    /\ service.pc = "idle"
    /\ service._started
    /\ job_source' = [job_source EXCEPT !.state = "terminated"]
    /\ service' = [service EXCEPT !.pc = "terminate_workers", !.i = 1]
    /\ UNCHANGED <<num_workers, status_updater, workers, Others>>

\* for worker in self.workers: worker.terminate(); the worker's SigHandler
\* sets its flag when the signal arrives
TerminateWorker ==
    /\ service.pc = "terminate_workers"
    /\ service.i <= num_workers
    /\ workers' = [workers EXCEPT ![service.i] =
            IF Ended(@) THEN @ ELSE SigHandler_set(@, InFlight(@))]
    /\ service' = [service EXCEPT !.i = @ + 1]
    /\ UNCHANGED <<num_workers, status_updater, job_source, Others>>

\* join() is called after terminate(); its first statement
join_first_without_workers == "terminate_updater"

join_first == "join_workers"

TerminateDone ==
    /\ service.pc = "terminate_workers"
    /\ service.i > num_workers
    /\ service' = [service EXCEPT !.pc = join_first, !.i = 1]
    /\ UNCHANGED <<num_workers, status_updater, job_source, workers, Others>>

\* for worker in self.workers: worker.join()
JoinWorker_without_waiting ==
    /\ service.pc = "join_workers"
    /\ service.i <= num_workers
    /\ service' = [service EXCEPT !.i = @ + 1]
    /\ UNCHANGED <<num_workers, status_updater, job_source, workers, Others>>

JoinWorker ==
    /\ service.pc = "join_workers"
    /\ service.i <= num_workers
    /\ Ended(workers[service.i])
    /\ service' = [service EXCEPT !.i = @ + 1]
    /\ UNCHANGED <<num_workers, status_updater, job_source, workers, Others>>

JoinWorkersDone ==
    /\ service.pc = "join_workers"
    /\ service.i > num_workers
    /\ service' = [service EXCEPT !.pc = "terminate_updater"]
    /\ UNCHANGED <<num_workers, status_updater, job_source, workers, Others>>

\* self.status_updater.terminate()
TerminateUpdater ==
    /\ service.pc = "terminate_updater"
    /\ status_updater' = updater_terminate(status_updater)
    /\ service' = [service EXCEPT !.pc = "join_source"]
    /\ UNCHANGED <<num_workers, job_source, workers, Others>>

\* self.job_source.join()
JoinSource ==
    /\ service.pc = "join_source"
    /\ job_source' = [job_source EXCEPT !.state = "joined"]
    /\ service' = [service EXCEPT !.pc = "join_updater"]
    /\ UNCHANGED <<num_workers, status_updater, workers, Others>>

\* self.status_updater.join()
JoinUpdater ==
    /\ service.pc = "join_updater"
    /\ status_updater' = [status_updater EXCEPT !.state = "joined"]
    /\ service' = [service EXCEPT !.pc = "joined"]
    /\ UNCHANGED <<num_workers, job_source, workers, Others>>

\* The status updater's own process sends a batch.
UpdaterFlush(k) ==
    /\ status_updater.state = "running"
    /\ k \in (Len(status_updater.delivered) + 1)..Len(status_updater.queue)
    /\ status_updater' = flush(status_updater, k)
    /\ UNCHANGED <<num_workers, service, job_source, workers, Others>>

\* The job.out files a workdir may hold: up to MaxLogLines lines, each an
\* ordinary line, a marker followed by a payload, a marker inside a line, or
\* a marker that nothing follows.
JobOutLines ==
    {<<"x">>, <<ret_marker, "x">>, <<exc_marker, "x">>, <<ret_marker>>,
     <<"x", exc_marker, "x">>}
JobOuts ==
    {NoFile} \cup
    [is_file : {TRUE}, lines : UNION {[1..n -> JobOutLines] : n \in 0..MaxLogLines}]

\* The inputs of the whole-service specification: Python apps whose run is
\* done, a handler that returns, a file system that answers, and a job.out
\* that is well-formed or holds a bare marker.
ServiceApps == {id \in DOMAIN app_cache : app_cache[id] = "PY_FUNC"}
ServiceHandlerRuns == {h \in HandlerRuns : h.state = NULL /\ h.raises = NULL}
ServiceJobOuts ==
    {[is_file |-> TRUE, lines |-> <<<<ret_marker, "x">>>>],
     [is_file |-> TRUE, lines |-> <<<<ret_marker>>>>]}

\* ---------------------------------------------------------------------------
\* Specifications
\* ---------------------------------------------------------------------------
\* The parts a specification leaves out stay switched off.
ClockOff ==
    /\ clock_pc = "off"
    /\ t_str = <<>>
    /\ clock_ret = [exc |-> NULL, val |-> 0]

SubmitOff ==
    /\ submit_pc = "off"
    /\ submit_output = <<>>
    /\ submit_ret = [exc |-> NULL, val |-> 0]

BackfillOff ==
    /\ backfill_pc = "off"
    /\ backfill_stdout = <<>>
    /\ backfill_ret = [exc |-> NULL, val |-> (_queue_name :> <<>>)]

ValidateOff ==
    /\ validate_pc = "off"
    /\ bj = [queue |-> "", project |-> "", num_nodes |-> 0, wall_time_min |-> 0,
             partitions |-> <<>>, optional_params |-> {}]
    /\ validate_exc = NULL

StatusOff ==
    /\ status_pc = "off"
    /\ jobstat = [headers |-> FALSE, jobs |-> <<>>]
    /\ status_ret = [exc |-> NULL, val |-> EmptyDict]

LeaseOff ==
    /\ sessions = [s \in SessionIds |-> [row |-> "none", heartbeat |-> "fresh"]]
    /\ jobs = [id \in LeaseJobIds |-> [session_id |-> 0, state |-> "CREATED", num_nodes |-> 1]]
    /\ held = [s \in SessionIds |-> {}]
    /\ last_acquire = NoAcquire
    /\ last_tick = 0

ProcOff ==
    /\ num_workers = 0
    /\ service = [pc |-> "off", _started |-> FALSE, i |-> 0, start_calls |-> 0]
    /\ status_updater = [state |-> "new", queue |-> <<>>, late |-> FALSE, delivered |-> <<>>]
    /\ job_source = [state |-> "new", n |-> 0]
    /\ workers = <<>>

InitClock ==
    /\ clock_pc = "input"
    /\ t_str \in ClockInputs
    /\ clock_ret = [exc |-> NULL, val |-> 0]
    /\ ValidateOff
    /\ StatusOff
    /\ LeaseOff
    /\ ProcOff
    /\ SubmitOff
    /\ BackfillOff

NextClock == ParseClock

SpecClock == InitClock /\ [][NextClock]_vars

InitValidate ==
    /\ validate_pc = "input"
    /\ bj \in BatchJobs
    /\ validate_exc = NULL
    /\ ClockOff
    /\ StatusOff
    /\ LeaseOff
    /\ ProcOff
    /\ SubmitOff
    /\ BackfillOff

NextValidate == Validate

SpecValidate == InitValidate /\ [][NextValidate]_vars

InitStatus ==
    /\ status_pc = "input"
    /\ jobstat \in JobstatInputs
    /\ status_ret = [exc |-> NULL, val |-> EmptyDict]
    /\ ClockOff
    /\ ValidateOff
    /\ LeaseOff
    /\ ProcOff
    /\ SubmitOff
    /\ BackfillOff

NextStatus == ParseStatusOutput

SpecStatus == InitStatus /\ [][NextStatus]_vars

InitStatusText ==
    /\ status_pc = "text"
    /\ jobstat \in [header : TextHeaders,
                     jobs : UNION {[1..n -> [id : 1..MaxSchedulerId, drop : DropWords,
                                             extra : BOOLEAN]] : n \in 0..MaxTextLines},
                     blank : BOOLEAN]
    /\ status_ret = [exc |-> NULL, val |-> EmptyDict]
    /\ ClockOff
    /\ ValidateOff
    /\ LeaseOff
    /\ ProcOff
    /\ SubmitOff
    /\ BackfillOff

NextStatusText == ParseStatusText

SpecStatusText == InitStatusText /\ [][NextStatusText]_vars

InitSubmit ==
    /\ submit_pc = "input"
    /\ submit_output \in SubmitOutputs
    /\ submit_ret = [exc |-> NULL, val |-> 0]
    /\ ClockOff
    /\ ValidateOff
    /\ StatusOff
    /\ LeaseOff
    /\ ProcOff
    /\ BackfillOff

NextSubmit == ParseSubmitOutput

SpecSubmit == InitSubmit /\ [][NextSubmit]_vars

InitBackfill ==
    /\ backfill_pc = "input"
    /\ \/ backfill_stdout = <<>>
       \/ \E n \in 0..MaxBackfillLines : \E ls \in [1..n -> BackfillLines] :
              backfill_stdout = BackfillText(ls)
    /\ backfill_ret = [exc |-> NULL, val |-> (_queue_name :> <<>>)]
    /\ ClockOff
    /\ ValidateOff
    /\ StatusOff
    /\ LeaseOff
    /\ ProcOff
    /\ SubmitOff

NextBackfill == ParseBackfillOutput

SpecBackfill == InitBackfill /\ [][NextBackfill]_vars

InitLease ==
    /\ sessions = [s \in SessionIds |-> [row |-> "none", heartbeat |-> "fresh"]]
    /\ jobs \in [LeaseJobIds -> [session_id : {0},
                                 state : {"PREPROCESSED", "STAGED_IN"},
                                 num_nodes : 1..2]]
    /\ \A id \in LeaseJobIds : id > 1 => jobs[id].state = "PREPROCESSED"
    /\ held = [s \in SessionIds |-> {}]
    /\ last_acquire = NoAcquire
    /\ last_tick = 0
    /\ ClockOff
    /\ ValidateOff
    /\ StatusOff
    /\ ProcOff
    /\ SubmitOff
    /\ BackfillOff

NextLease ==
    \/ \E s \in SessionIds : CreateSession(s)
    \/ \E s \in SessionIds, kwargs \in AcquireKwargs : AcquireJobs(s, kwargs)
    \/ \E s \in SessionIds : Tick(s)
    \/ \E s \in SessionIds : Age(s)
    \/ \E s \in SessionIds : Reap(s)

SpecLease == InitLease /\ [][NextLease]_vars

Init ==
    /\ num_workers = NumWorkers
    /\ service = [pc |-> "idle", _started |-> FALSE, i |-> 0, start_calls |-> 0]
    /\ status_updater = [state |-> "new", queue |-> <<>>, late |-> FALSE, delivered |-> <<>>]
    /\ job_source = [state |-> "new", n |-> 0]
    /\ workers = [w \in 1..NumWorkers |-> NewWorker]
    /\ ClockOff
    /\ ValidateOff
    /\ StatusOff
    /\ LeaseOff
    /\ SubmitOff
    /\ BackfillOff

ServiceStep ==
    \/ Start
    \/ StartUpdater
    \/ StartSource
    \/ StartWorker
    \/ StartDone
    \/ Terminate
    \/ TerminateWorker
    \/ TerminateDone
    \/ JoinWorker
    \/ JoinWorkersDone
    \/ TerminateUpdater
    \/ JoinSource
    \/ JoinUpdater

Next ==
    \/ ServiceStep
    \/ \E k \in 1..MaxJobs : UpdaterFlush(k)
    \/ \E w \in 1..num_workers : W_Loop(w)
    \/ \E w \in 1..num_workers : W_Empty(w)
    \/ \E w \in 1..num_workers, app_id \in ServiceApps : W_Get(w, app_id, "RUN_DONE")
    \/ \E w \in 1..num_workers : W_Enter(w, "ok")
    \/ \E w \in 1..num_workers, h \in ServiceHandlerRuns : W_Transition(w, h)
    \/ \E w \in 1..num_workers, file \in ServiceJobOuts : W_Read(w, file)
    \/ \E w \in 1..num_workers : W_Put(w)

Spec == Init /\ [][Next]_vars

\* A step of worker w: Python apps in any state the job source delivers, a
\* handler that returns or raises, a file system that answers.
WorkerStep(w) ==
    \/ W_Loop(w)
    \/ W_Empty(w)
    \/ \E app_id \in ServiceApps, state \in SourceStates : W_Get(w, app_id, state)
    \/ W_Enter(w, "ok")
    \/ \E h \in HandlerRuns : W_Transition(w, h)
    \/ \E file \in ServiceJobOuts : W_Read(w, file)
    \/ W_Put(w)

\* One worker of a started service, with every input.
InitWorker ==
    /\ num_workers = 1
    /\ service = [pc |-> "idle", _started |-> TRUE, i |-> 2, start_calls |-> 1]
    /\ status_updater = [state |-> "running", queue |-> <<>>, late |-> FALSE, delivered |-> <<>>]
    /\ job_source = [state |-> "running", n |-> 0]
    /\ workers = [w \in 1..1 |-> [NewWorker EXCEPT !.pc = "loop"]]
    /\ ClockOff
    /\ ValidateOff
    /\ StatusOff
    /\ LeaseOff
    /\ SubmitOff
    /\ BackfillOff

NextWorker ==
    \/ W_Loop(1)
    \/ W_Empty(1)
    \/ \E app_id \in app_ids, state \in SourceStates : W_Get(1, app_id, state)
    \/ \E fs \in FsOutcomes : W_Enter(1, fs)
    \/ \E h \in HandlerRuns : W_Transition(1, h)
    \/ \E file \in JobOuts : W_Read(1, file)
    \/ W_Put(1)

SpecWorker == InitWorker /\ [][NextWorker]_vars

\* One worker of a started service that is terminated, with the worker's
\* process scheduled: when the worker can take a step it takes one.
\* job_source.get returns or times out within a second, a handler call is
\* taken to return or raise, and put does not block.
NextStop ==
    \/ Terminate
    \/ TerminateWorker
    \/ TerminateDone
    \/ WorkerStep(1)

SpecStop == InitWorker /\ [][NextStop]_vars /\ WF_vars(WorkerStep(1))

\* ---------------------------------------------------------------------------
\* C7: parse_clock("01:02:03:30") is 1564 minutes, and in general a seconds
\* component of exactly 30 adds one minute (round-half-up).
\* ---------------------------------------------------------------------------
HalfMinute == <<"3", "0">>

C7_ThirtySecondsRoundUp ==
    clock_pc = "done" =>
        LET parts == Split(t_str, ":")
            n == Len(parts)
        IN  /\ t_str = Join(<<<<"0", "1">>, <<"0", "2">>, <<"0", "3">>, HalfMinute>>, ":")
                => (clock_ret.exc = NULL /\ clock_ret.val = 1564)
            /\ (n \in {2, 3, 4} /\ parts[n] = HalfMinute /\ clock_ret.exc = NULL)
                => clock_ret.val =
                     parse_clock(Join(SubSeq(parts, 1, n - 1) \o <<<<"0", "0">>>>, ":")).val + 1

\* ---------------------------------------------------------------------------
\* C9: validate raises, and changes no field of the batch job, whenever the
\* queue or the project is not allowed, num_nodes or wall_time_min exceeds
\* the queue's maximum, or the partitions do not sum to num_nodes; it
\* returns normally only when none of these holds.
\* ---------------------------------------------------------------------------
Rejectable(b) ==
    \/ b.queue \notin DOMAIN allowed_queues
    \/ b.project \notin allowed_projects
    \/ /\ b.queue \in DOMAIN allowed_queues
       /\ \/ b.num_nodes > allowed_queues[b.queue].max_nodes
          \/ b.wall_time_min > allowed_queues[b.queue].max_walltime
    \/ /\ Len(b.partitions) > 0
       /\ SumSeq(b.partitions) # b.num_nodes

C9_ValidateRejects ==
    [][(validate_pc = "input" /\ validate_pc' = "done") =>
        /\ bj' = bj
        /\ Rejectable(bj) => validate_exc' # NULL
        /\ validate_exc' = NULL => ~Rejectable(bj)]_vars

C9_Witness ==
    /\ validate_pc = "done"
    /\ validate_exc = "exceeds queue max num_nodes"
    /\ bj.num_nodes > allowed_queues[bj.queue].max_nodes

\* ---------------------------------------------------------------------------
\* C8: a status text with R running, P eligible and B blocked job lines of
\* pairwise distinct ids parses to exactly R+P+B entries keyed by those ids,
\* with state running, queued and submit_failed respectively.
\* ---------------------------------------------------------------------------
SectionState(sec) ==
    CASE sec = "run" -> "running" [] sec = "pend" -> "queued" [] sec = "block" -> "submit_failed"

DistinctIds(js) ==
    \A i, k \in 1..Len(js) : i # k => js[i].id # js[k].id

C8_StatusEntries ==
    (status_pc = "done" /\ jobstat.headers /\ DistinctIds(jobstat.jobs)) =>
        /\ status_ret.exc = NULL
        /\ Cardinality(DOMAIN status_ret.val) = Len(jobstat.jobs)
        /\ DOMAIN status_ret.val = {jobstat.jobs[i].id : i \in 1..Len(jobstat.jobs)}
        /\ \A i \in 1..Len(jobstat.jobs) :
              LET j == jobstat.jobs[i]
              IN  /\ status_ret.val[j.id].scheduler_id = j.id
                  /\ status_ret.val[j.id].state = SectionState(j.sec)

C8_Witness ==
    /\ status_pc = "done"
    /\ jobstat.headers
    /\ DistinctIds(jobstat.jobs)
    /\ {jobstat.jobs[i].sec : i \in 1..Len(jobstat.jobs)} = {"run", "pend", "block"}
    /\ Cardinality(DOMAIN status_ret.val) = 3

\* ---------------------------------------------------------------------------
\* C4: no job is held by two sessions at once: a job returned to a session
\* carries that session's id, and while it does no acquire_jobs call of
\* another active session returns it.
\* ---------------------------------------------------------------------------
Active(s) == sessions[s].row = "active"

C4_ExclusiveLease ==
    \A a \in SessionIds : Active(a) =>
        /\ \A id \in held[a] : jobs[id].session_id = a
        /\ \A b \in SessionIds : (Active(b) /\ b # a) => held[a] \cap held[b] = {}

C4_Witness ==
    /\ Active(1) /\ Active(2)
    /\ held[1] # {}
    /\ last_acquire.session = 2
    /\ last_acquire.kwargs.max_num_jobs = MaxLeaseJobs
    /\ last_acquire.kwargs.max_aggregate_nodes = None
    /\ \E id \in held[1] : jobs[id].state \in RUNNABLE_STATES

\* ---------------------------------------------------------------------------
\* C10: an acquire_jobs call returns at most max_num_jobs jobs, and with
\* max_aggregate_nodes given the num_nodes of the returned jobs sum to at most
\* max_aggregate_nodes.
\* ---------------------------------------------------------------------------
RECURSIVE SumNodes(_)
SumNodes(ids) ==
    IF Len(ids) = 0 THEN 0 ELSE jobs[Head(ids)].num_nodes + SumNodes(Tail(ids))

C10_AcquireBounds ==
    last_acquire.session # 0 =>
        /\ Len(last_acquire.jobs) <= last_acquire.kwargs.max_num_jobs
        /\ last_acquire.kwargs.max_aggregate_nodes # None
                => SumNodes(last_acquire.jobs) <= last_acquire.kwargs.max_aggregate_nodes[1]

C10_Witness ==
    /\ last_acquire.session # 0
    /\ last_acquire.kwargs.max_aggregate_nodes = Some(2)
    /\ last_acquire.kwargs.max_num_jobs = MaxLeaseJobs
    /\ Len(last_acquire.jobs) = 1
    /\ SumNodes(last_acquire.jobs) = 1
    /\ \E id \in LeaseJobIds :
            /\ id \notin SeqRange(last_acquire.jobs)
            /\ jobs[id].session_id = 0
            /\ jobs[id].state \in RUNNABLE_STATES

\* ---------------------------------------------------------------------------
\* ProcessingService claims
\* ---------------------------------------------------------------------------

\* C1: when the handler bound to a job's state raises during transition,
\* transition returns normally -- the worker goes on to read the result and to
\* put the update, it does not die of the exception -- and the job is then
\* FAILED with state_data naming the handler and carrying the exception text.
C1_HandlerFailureIsCaught ==
    \A w \in DOMAIN workers :
        LET wk == workers[w]
        IN  wk.job.raised # NULL =>
                /\ wk.pc \in {"read", "update"}
                /\ wk.job.state = "FAILED"
                /\ wk.job.state_data = [message |-> transition_func[wk.job.entry],
                                        exception |-> wk.job.raised]

C1_Witness ==
    \E w \in DOMAIN workers :
        /\ workers[w].pc = "update"
        /\ workers[w].job.raised = "boom"
        /\ workers[w].job.calls = <<"handle_error">>
        /\ workers[w].job.state = "FAILED"

\* C2: the status updater is terminated only after every worker has left
\* run_worker, and no put ever reaches an updater that is not running.
C2_UpdaterOutlivesWorkers ==
    /\ status_updater.state \in {"terminated", "joined"} =>
            \A w \in DOMAIN workers : Ended(workers[w])
    /\ ~status_updater.late

C2_Witness ==
    /\ status_updater.state = "terminated"
    /\ status_updater.queue # <<>>
    /\ \E w \in DOMAIN workers : workers[w].pc = "exited" /\ workers[w].sig_job # 0

C5_ContextRestored ==
    \A w \in DOMAIN workers :
        LET wk == workers[w]
        IN  wk.pc \notin {"transition", "read"} =>
                /\ wk.cwd = NewWorker.cwd
                /\ wk.stdout = NewWorker.stdout
                /\ wk.stderr = NewWorker.stderr

C5_Witness ==
    \E w \in DOMAIN workers :
        /\ workers[w].pc = "died"
        /\ workers[w].exc = "IndexError"
        /\ workers[w].old_cwd = "site"
        /\ workers[w].cwd = "site"
        /\ workers[w].stderr = "stderr"

\* The update a worker is about to put for a job in a result-bearing state.
HasLine(job, marker) ==
    \E k \in 1..Len(job.job_out.lines) : Contains(job.job_out.lines[k], marker)

FirstLineWith(job, marker) ==
    \E k \in 1..Len(job.job_out.lines) :
        /\ Contains(job.job_out.lines[k], marker)
        /\ \A i \in 1..(k - 1) :
                /\ ~Contains(job.job_out.lines[i], ret_marker)
                /\ ~Contains(job.job_out.lines[i], exc_marker)

NonEmpty(field) == field # None /\ field # Some(<<>>)
Empty(field) == field = Some(<<>>)

AcquireAll ==
    [NoAcquire.kwargs EXCEPT !.max_num_jobs = MaxLeaseJobs, !.states = RUNNABLE_STATES]

Reaped(s) == sessions[s].row = "active" /\ sessions'[s].row = "deleted"

C13_TickOnlyHeartbeat ==
    [][\A s \in SessionIds : (last_tick' = s /\ sessions[s].row = "active") =>
            /\ sessions' = [sessions EXCEPT ![s].heartbeat = "fresh"]
            /\ jobs' = jobs
            /\ held' = held
            /\ last_acquire' = last_acquire]_vars

\* Session 2 ticked while session 1 was expired and held a job: session 1 is
\* still expired, the job is still its own.
C13_Witness ==
    /\ last_tick = 2
    /\ sessions[2].heartbeat = "fresh"
    /\ sessions[1].row = "active"
    /\ sessions[1].heartbeat = "expired"
    /\ \E id \in LeaseJobIds : jobs[id].session_id = 1

\* ---------------------------------------------------------------------------
\* ProcessingService claims, continued
\* ---------------------------------------------------------------------------

\* C12: the transport never has anything but the first records of the queue,
\* in their order, and once the updater's terminate() has returned it has
\* every record that was ever put: each one once, none lost.
C12_AllDelivered ==
    /\ Len(status_updater.delivered) <= Len(status_updater.queue)
    /\ status_updater.delivered =
            SubSeq(status_updater.queue, 1, Len(status_updater.delivered))
    /\ status_updater.state \in {"terminated", "joined"} =>
            status_updater.delivered = status_updater.queue

C12_Witness ==
    /\ status_updater.state = "terminated"
    /\ Len(status_updater.queue) = MaxJobs
    /\ status_updater.delivered = status_updater.queue
    /\ \A a, b \in 1..Len(status_updater.delivered) :
            a # b => status_updater.delivered[a].id # status_updater.delivered[b].id

\* ---------------------------------------------------------------------------
\* Scheduler output claims
\* ---------------------------------------------------------------------------

\* C14 as stated: an empty or whitespace-only status text parses to an empty
\* status map without an exception, and an empty backfill text to no windows
\* without an exception.
C14_EmptyOutputIsNoJobs ==
    /\ (status_pc = "done" /\ jobstat.header = "none" /\ jobstat.jobs = <<>>) =>
            status_ret = [exc |-> NULL, val |-> EmptyDict]
    /\ _parse_backfill_output(<<>>) = [exc |-> NULL, val |-> (_queue_name :> <<>>)]

\* The number of columns _parse_status_output makes of a line of n words:
\* words 7 and 8 become one column in the running and eligible sections,
\* words 7 and on in the blocked section.
ColumnsOf(sec, n) ==
    IF n <= 6 THEN n + 1
    ELSE IF sec = "block" THEN 7
    ELSE IF n <= 8 THEN 7
    ELSE n - 1

FieldsOf(sec) ==
    CASE sec = "run" -> _status_run_fields
      [] sec = "pend" -> _status_pend_fields
      [] sec = "block" -> _status_block_fields

\* A line some of whose words stand in columns they were not printed for: a
\* word is missing before the last column, or the number of words is off.
\* The last column of a blocked job is free text of any number of words.
Misplaced(sec, j) ==
    LET whole == JobLine([sec |-> sec, id |-> j.id])
    IN  IF sec = "block" THEN j.drop \in 1..6
        ELSE \/ j.drop \in 1..(Len(whole) - 1)
             \/ (j.drop = Len(whole)) # j.extra

\* C15 as stated: a job line whose number of columns is not the number of
\* fields of its section makes the parse fail with the column error, and no
\* line with misplaced values ever yields a status record.
C15_ColumnMismatchFails ==
    (status_pc = "done" /\ jobstat.header \in {"run", "pend", "block"}) =>
        /\ (/\ Len(jobstat.jobs) > 0
             /\ ColumnsOf(jobstat.header, Len(TextJobLine(jobstat.header, jobstat.jobs[1])))
                    # Len(FieldsOf(jobstat.header))) =>
                status_ret.exc = "ValueError: columns"
        /\ \A i \in 1..Len(jobstat.jobs) :
                Misplaced(jobstat.header, jobstat.jobs[i]) => status_ret.exc # NULL

\* C16 as stated: a token that is not a known native state maps to "unknown",
\* and a status text under a section header that is not a known one parses
\* without an exception, its jobs in state "unknown".
C16_UnknownStateIsUnknown ==
    /\ \A token \in {"RUN", "PEND", "BLOCKED", "SSUSP", "Suspended"} :
            token \notin DOMAIN _job_states => _job_state_map(token) = "unknown"
    /\ (/\ status_pc = "done"
        /\ jobstat.header = "other"
        /\ \A i \in 1..Len(jobstat.jobs) :
                jobstat.jobs[i].drop = 0 /\ ~jobstat.jobs[i].extra) =>
            /\ status_ret.exc = NULL
            /\ \A k \in DOMAIN status_ret.val : status_ret.val[k].state = "unknown"

\* "Job <N>" at word i of the text, its ">" at j: N is the digits between.
PatternAt(s, i, j) ==
    /\ i + 5 < j
    /\ j <= Len(s)
    /\ SubSeq(s, i, i + 4) = <<"J", "o", "b", " ", "<">>
    /\ s[j] = ">"
    /\ IsInt(SubSeq(s, i + 5, j - 1))

HasPattern(s) == \E i, j \in 1..Len(s) : PatternAt(s, i, j)

PatternId(s) ==
    LET i == CHOOSE i \in 1..Len(s) :
                /\ \E j \in 1..Len(s) : PatternAt(s, i, j)
                /\ \A k \in 1..(i - 1) : ~\E j \in 1..Len(s) : PatternAt(s, k, j)
        j == CHOOSE j \in 1..Len(s) : PatternAt(s, i, j)
    IN  IntOf(SubSeq(s, i + 5, j - 1))

\* C17 as stated: wherever the text has "Job <N>", N is returned; without the
\* pattern, the last blank-separated word of the text is returned when it is a
\* number.
C17_SubmitId ==
    submit_pc = "done" =>
        IF HasPattern(submit_output)
        THEN submit_ret = [exc |-> NULL, val |-> PatternId(submit_output)]
        ELSE LET tokens == split(submit_output)
             IN  (Len(tokens) > 0 /\ IsInt(tokens[Len(tokens)])) =>
                    submit_ret = [exc |-> NULL, val |-> IntOf(tokens[Len(tokens)])]

\* ---------------------------------------------------------------------------
\* C18: parse_clock accepts every duration of one to four numeric components
\* and returns days * 1440 + hours * 60 + minutes plus the seconds rounded to
\* the nearest minute (so the result is within 30 seconds of the duration); a
\* seconds-only duration of 90 seconds or more is a non-zero number of
\* minutes.
\* ---------------------------------------------------------------------------
ClockSeconds(parts) ==
    LET n == Len(parts)
        At(k) == IF n >= k THEN IntOf(parts[n - k + 1]) ELSE 0
    IN  At(4) * 86400 + At(3) * 3600 + At(2) * 60 + At(1)

C18_EveryFormIsMinutes ==
    clock_pc = "done" =>
        LET parts == Split(t_str, ":")
            n == Len(parts)
            total == ClockSeconds(parts)
        IN  (n \in 1..4 /\ \A i \in 1..n : IsInt(parts[i])) =>
                /\ clock_ret.exc = NULL
                /\ 60 * clock_ret.val - total \in (-30)..30
                /\ (n = 1 /\ total >= 90) => clock_ret.val # 0

\* ---------------------------------------------------------------------------
\* C19: every job a worker dequeued gets exactly one update record with its
\* id: once the job's handler has been called the worker does not drop the
\* job, whatever the handler did and whatever job.out holds, and a job no
\* worker holds any more has its one record on the status updater.
\* ---------------------------------------------------------------------------
UpdatesOf(id) == {i \in DOMAIN status_updater.queue : status_updater.queue[i].id = id}
HoldersOf(id) == {w \in DOMAIN workers : workers[w].job.id = id}

C19_OneUpdatePerJob ==
    \A id \in 1..job_source.n :
        /\ Cardinality(UpdatesOf(id)) <= 1
        /\ HoldersOf(id) = {} => Cardinality(UpdatesOf(id)) = 1
        /\ \A w \in HoldersOf(id) :
              /\ UpdatesOf(id) = {}
              /\ workers[w].job.calls # <<>> => workers[w].pc # "died"

\* ---------------------------------------------------------------------------
\* C20: serialized_return_value and serialized_exception are set from job.out
\* only when the job's state after transition is RUN_DONE or RUN_ERROR; in
\* any other state, FAILED after a handler exception included, job.out is not
\* opened and both fields stay unset.
\* ---------------------------------------------------------------------------
ResultStates == {"RUN_DONE", "RUN_ERROR"}

C20_ScanOnlyInResultStates ==
    \A w \in DOMAIN workers :
        LET job == workers[w].job
        IN  /\ (job.scanned \/ job.serialized_return_value # None
                            \/ job.serialized_exception # None)
                  => job.state \in ResultStates
            /\ (workers[w].pc = "update" /\ job.state \notin ResultStates)
                  => /\ ~job.scanned
                     /\ job.serialized_return_value = None
                     /\ job.serialized_exception = None

\* A Python app's handler raised, the job is FAILED, its job.out has a
\* return-value line, and the update is about to be put.
C20_Witness ==
    \E w \in DOMAIN workers :
        LET job == workers[w].job
        IN  /\ workers[w].pc = "update"
            /\ app_cache[job.app_id] = "PY_FUNC"
            /\ job.state = "FAILED"
            /\ job.raised # NULL
            /\ job.job_out.is_file
            /\ FirstMarked(job.job_out.lines, 1) # 0
            /\ job.serialized_return_value = None
            /\ job.serialized_exception = None

\* ---------------------------------------------------------------------------
\* C21: after a scan of a job.out with several sentinel lines, the first line
\* that has either marker decides: with the return-value marker the return
\* value is that line's payload and the exception is empty, with the
\* exception marker the reverse; later sentinel lines change nothing, and
\* exactly one of the two fields is non-empty.
\* ---------------------------------------------------------------------------
MarkedLines(lines) ==
    {k \in 1..Len(lines) : Contains(lines[k], ret_marker) \/ Contains(lines[k], exc_marker)}

C21_FirstSentinelDecides ==
    \A w \in DOMAIN workers :
        LET job == workers[w].job
            lines == job.job_out.lines
            first == lines[FirstMarked(lines, 1)]
        IN  (/\ workers[w].pc \in {"update", "died"}
             /\ job.scanned
             /\ Cardinality(MarkedLines(lines)) >= 2) =>
                /\ Contains(first, ret_marker) =>
                        /\ job.serialized_return_value = Some(AfterMarker(first, ret_marker))
                        /\ job.serialized_exception = Some(<<>>)
                /\ ~Contains(first, ret_marker) =>
                        /\ job.serialized_exception = Some(AfterMarker(first, exc_marker))
                        /\ job.serialized_return_value = Some(<<>>)
                /\ NonEmpty(job.serialized_return_value) # NonEmpty(job.serialized_exception)

\* ---------------------------------------------------------------------------
\* C22: a call of transition calls exactly one handler, the one bound to the
\* state the job had at entry; a handler that moves the job to another state
\* with a handler does not make that second handler run.
\* ---------------------------------------------------------------------------
C22_OneHandlerPerTransition ==
    \A w \in DOMAIN workers :
        LET job == workers[w].job
        IN  /\ Len(job.calls) <= 1
            /\ workers[w].pc \in {"read", "update"} =>
                  job.calls = <<transition_func[job.entry]>>

\* A job dequeued in STAGED_IN came out of transition in RUN_DONE, a state
\* with a handler of its own, with preprocess the only handler called.
C22_Witness ==
    \E w \in DOMAIN workers :
        LET job == workers[w].job
        IN  /\ workers[w].pc = "read"
            /\ job.entry = "STAGED_IN"
            /\ job.state = "RUN_DONE"
            /\ job.state \in DOMAIN transition_func
            /\ job.calls = <<"preprocess">>

\* ---------------------------------------------------------------------------
\* C23: once a worker's stop flag is set the worker eventually leaves its
\* loop, handlers being taken to terminate: an idle worker is back at the
\* flag after one dequeue timeout, a busy one after the put of its job.
\* ---------------------------------------------------------------------------
C23_WorkersExit == workers[1].sig ~> Ended(workers[1])

\* A worker whose flag was set while it had a job in flight has put that
\* job's update and left its loop by the flag.
C23_Witness ==
    \E w \in DOMAIN workers :
        /\ workers[w].sig
        /\ workers[w].sig_job # 0
        /\ workers[w].pc = "exited"
        /\ UpdatesOf(workers[w].sig_job) # {}

\* ---------------------------------------------------------------------------
\* C24: _parse_backfill_output gives whole minutes, the seconds cut off: a
\* line "N hours M minutes S seconds" is N * 60 + M minutes and a line
\* "M minutes S seconds" is M minutes, whatever S; every line after the
\* header that is not blank gives exactly one window, in its place, and the
\* windows are all under the one queue "batch".
\* ---------------------------------------------------------------------------
NonBlank(lines) == SelectSeq(lines, LAMBDA line : Len(line) > 0)

WholeMinutes(line) ==
    IF line \in HoursLines THEN IntOf(Chars(line[2])) * 60 + IntOf(Chars(line[4]))
    ELSE IntOf(Chars(line[2]))

C24_BackfillTruncates ==
    (backfill_pc = "done" /\ Len(backfill_stdout) > 0) =>
        LET lines == NonBlank(Tail(backfill_stdout))
            windows == backfill_ret.val
        IN  /\ backfill_ret.exc = NULL
            /\ DOMAIN windows = {"batch"}
            /\ Len(windows["batch"]) = Len(lines)
            /\ \A i \in 1..Len(lines) :
                  /\ windows["batch"][i].wall_time_min = WholeMinutes(lines[i])
                  /\ windows["batch"][i].num_nodes = IntOf(Chars(lines[i][1]))

\* A text with a blank line and a line of 1 hour 59 minutes 59 seconds was
\* parsed into one window of 119 minutes.
C24_Witness ==
    /\ backfill_pc = "done"
    /\ \E i \in 2..Len(backfill_stdout) : backfill_stdout[i] = <<>>
    /\ \E i \in 2..Len(backfill_stdout) :
          backfill_stdout[i] = <<"2", "1", "hours", "59", "minutes", "59", "seconds">>
    /\ backfill_ret = [exc |-> NULL,
                       val |-> ("batch" :> <<[num_nodes |-> 2, wall_time_min |-> 119]>>)]

\* ---------------------------------------------------------------------------
\* C25: the states the job source is asked for are exactly the keys of the
\* dispatch table of transition, and the app ids it is asked for exactly the
\* keys of the app cache that are not None; so for a job the source handed
\* out neither app_cache[job.app_id] nor the handler lookup raises KeyError.
\* ---------------------------------------------------------------------------
C25_HandlerLookupNeverFails ==
    /\ SourceStates = DOMAIN transition_func
    /\ app_ids = DOMAIN app_cache \ {0}
    /\ \A w \in DOMAIN workers :
          LET job == workers[w].job
          IN  /\ workers[w].exc # "KeyError"
              /\ job.id # 0 =>
                    /\ job.entry \in DOMAIN transition_func
                    /\ job.app_id \in DOMAIN app_cache
              /\ workers[w].pc \in {"read", "update"} =>
                    job.calls = <<transition_func[job.entry]>>

\* A job of the second app, handed out in RUN_TIMEOUT, had its app class and
\* its handler looked up, and handle_timeout was called.
C25_Witness ==
    \E w \in DOMAIN workers :
        LET job == workers[w].job
        IN  /\ workers[w].pc = "read"
            /\ job.app_id = 2
            /\ job.entry = "RUN_TIMEOUT"
            /\ job.calls = <<"handle_timeout">>
            /\ workers[w].exc = NULL

\* ---------------------------------------------------------------------------
\* C26: whatever the sequence of start calls, the status updater, the job
\* source and each worker are started once only (a start finds them new),
\* a worker is started only when the updater and the source are running,
\* and no job is dequeued and no update put before those two were started.
\* ---------------------------------------------------------------------------
StartedInOrder ==
    /\ \A w \in DOMAIN workers :
          workers[w].pc # "new" => (status_updater.state # "new" /\ job_source.state # "new")
    /\ (job_source.n > 0 \/ status_updater.queue # <<>>) =>
          (status_updater.state # "new" /\ job_source.state # "new")

C26_StartOnceInOrder ==
    /\ []StartedInOrder
    /\ [][/\ StartUpdater => status_updater.state = "new"
          /\ StartSource => (job_source.state = "new" /\ status_updater.state = "running")
          /\ StartWorker => /\ workers[service.i].pc = "new"
                            /\ status_updater.state = "running"
                            /\ job_source.state = "running"]_vars

\* start was called a second time on a started service, and a worker has
\* dequeued a job since.
C26_Witness ==
    /\ service.start_calls = MaxStartCalls
    /\ service.start_calls >= 2
    /\ service._started
    /\ service.pc = "idle"
    /\ status_updater.state = "running"
    /\ job_source.state = "running"
    /\ \A w \in DOMAIN workers : workers[w].pc # "new"
    /\ job_source.n > 0

====
